---- MODULE Spec2Model ----
(***************************************************************************)
(* Model of mcp_server_mysql.py: a connection pool of fixed size, three    *)
(* tool handlers (run_query, describe_table,                               *)
(* describe_indexes_and_foreign_keys) that each take a pooled connection,  *)
(* run their try block on it and close it in a finally clause, and the two *)
(* folds that regroup catalog rows into index and foreign-key descriptors. *)
(*                                                                         *)
(* The handlers are coroutines without a suspension point; the host that   *)
(* dispatches them is not part of the source.  The model lets the host     *)
(* start a handler while others still hold their connection (one step for  *)
(* get_conn(), one for the try/finally that follows it), which includes    *)
(* the one-at-a-time schedule of a single event loop.                      *)
(***************************************************************************)
EXTENDS Integers, Sequences, FiniteSets, TLC

VARIABLES
    pool,      \* POOL: the queue of connections that are not checked out
    pc,        \* per invocation: "idle" or "try" (holding a connection)
    op,        \* per invocation: the tool being run
    conn,      \* per invocation: the handler's local `conn` (0: none)
    reply,     \* what the last completed invocation gave back to the host
    idx_rows,  \* rows fetched for index_query
    fk_rows,   \* rows fetched for fk_query
    indexes,   \* the dict `indexes`, in insertion order
    outbound,  \* the dict `outbound`, in insertion order
    inbound,   \* the dict `inbound`, in insertion order
    phase,     \* position of the fold specifications
    catalog,   \* KEY_COLUMN_USAGE rows of the database (catalog specification)
    args       \* (schema, table_name) of the described table

vars == <<pool, pc, op, conn, reply, idx_rows, fk_rows, indexes, outbound,
          inbound, phase, catalog, args>>

toolVars == <<pool, pc, op, conn, reply>>
foldVars == <<idx_rows, fk_rows, indexes, outbound, inbound, phase, catalog, args>>

(***************************************************************************)
(* Bounds and program constants                                            *)
(***************************************************************************)
PoolSize == 5   \* pool_size
NumInv == 1     \* invocations of Spec that may hold a connection at a time
Extra == 1      \* invocations of PoolSpec beyond the pool size
MaxRows == 2    \* rows handed to a fold in FoldSpec
MaxSeq == 2     \* largest SEQ_IN_INDEX in FoldSpec
MaxFks == 2     \* foreign keys in the database of CatalogSpec

Conns == 1..PoolSize
Invs == 1..NumInv
PoolInvs == 1..(PoolSize + Extra)
Ops == {"run_query", "describe_table", "describe_indexes_and_foreign_keys"}

(***************************************************************************)
(* Sequence helpers                                                        *)
(***************************************************************************)
SeqsUpTo(S, n) == UNION {[1..k -> S] : k \in 0..n}

\* the subsets of S with at most n elements
SetsUpTo(S, n) == {{s[k] : k \in DOMAIN s} : s \in SeqsUpTo(S, n)}

Count(s, x) == Cardinality({k \in 1..Len(s) : s[k] = x})

HasKey(dict, key) == \E k \in 1..Len(dict) : dict[k].key = key

Values(dict) == [k \in 1..Len(dict) |-> dict[k].value]

\* dict[key]["columns"].append(entry), for a key that is in the dict
AppendColumn(dict, key, entry) ==
    [k \in 1..Len(dict) |->
        IF dict[k].key = key
        THEN [dict[k] EXCEPT !.value.columns = Append(@, entry)]
        ELSE dict[k]]

\* dict[key] = value for a key that is not in the dict yet
Insert(dict, key, value) == Append(dict, [key |-> key, value |-> value])

(***************************************************************************)
(* Index fold (describe_indexes_and_foreign_keys, the loop over idx_rows)  *)
(***************************************************************************)
\* row["INDEX_NAME"] or "(unnamed)": a NULL name and an empty name are both
\* falsy; "" stands for either.
IdxName(row) == IF row.INDEX_NAME = "" THEN "(unnamed)" ELSE row.INDEX_NAME

\* A slip the fold must not make: the flag recomputed from every row.
IndexFoldRowRecomputed(dict, row) ==
    LET idx_name == IdxName(row)
        seen == IF HasKey(dict, idx_name) THEN dict
                ELSE Insert(dict, idx_name,
                            [name |-> idx_name,
                             is_primary_or_unique |-> row.IS_PRIMARY_OR_UNIQUE # 0,
                             columns |-> <<>>])
        flagged == [k \in 1..Len(seen) |->
                      IF seen[k].key = idx_name
                      THEN [seen[k] EXCEPT !.value.is_primary_or_unique =
                                               row.IS_PRIMARY_OR_UNIQUE # 0]
                      ELSE seen[k]]
    IN  AppendColumn(flagged, idx_name,
                     [name |-> row.COLUMN_NAME, seq_in_index |-> row.SEQ_IN_INDEX])

\* One iteration of `for row in idx_rows`.
IndexFoldRow(dict, row) ==
    LET idx_name == IdxName(row)
        seen == IF HasKey(dict, idx_name) THEN dict
                ELSE Insert(dict, idx_name,
                            [name |-> idx_name,
                             is_primary_or_unique |-> row.IS_PRIMARY_OR_UNIQUE # 0,
                             columns |-> <<>>])
    IN  AppendColumn(seen, idx_name,
                     [name |-> row.COLUMN_NAME, seq_in_index |-> row.SEQ_IN_INDEX])

RECURSIVE IndexFold(_, _)
IndexFold(dict, rows) ==
    IF rows = <<>> THEN dict
    ELSE IndexFold(IndexFoldRow(dict, Head(rows)), Tail(rows))

(***************************************************************************)
(* Foreign-key fold (the loop over fk_rows)                                *)
(***************************************************************************)
\* f"{row['REFERENCED_TABLE_SCHEMA']}.{row['REFERENCED_TABLE_NAME']}.{fk_name}"
InboundKey(row) ==
    row.REFERENCED_TABLE_SCHEMA \o "." \o row.REFERENCED_TABLE_NAME
        \o "." \o row.CONSTRAINT_NAME

ColumnPair(row) ==
    [column |-> row.COLUMN_NAME, references |-> row.REFERENCED_COLUMN_NAME]

\* A slip the fold must not make: the inbound column appended only when the
\* descriptor is created.
FkFoldRowAppendOnCreate(acc, row) ==
    LET fk_name == row.CONSTRAINT_NAME
        out1 == IF HasKey(acc.outbound, fk_name) THEN acc.outbound
                ELSE Insert(acc.outbound, fk_name,
                            [name |-> fk_name,
                             target_schema |-> row.REFERENCED_TABLE_SCHEMA,
                             target_table |-> row.REFERENCED_TABLE_NAME,
                             columns |-> <<>>])
        key == InboundKey(row)
    IN  [outbound |-> AppendColumn(out1, fk_name, ColumnPair(row)),
         inbound |-> IF HasKey(acc.inbound, key) THEN acc.inbound
                     ELSE Insert(acc.inbound, key,
                                 [name |-> fk_name,
                                  source_schema |-> row.TABLE_SCHEMA,
                                  source_table |-> row.TABLE_NAME,
                                  columns |-> <<ColumnPair(row)>>])]

\* One iteration of `for row in fk_rows`; acc holds the two dicts.
FkFoldRow(acc, row) ==
    LET fk_name == row.CONSTRAINT_NAME
        out1 == IF HasKey(acc.outbound, fk_name) THEN acc.outbound
                ELSE Insert(acc.outbound, fk_name,
                            [name |-> fk_name,
                             target_schema |-> row.REFERENCED_TABLE_SCHEMA,
                             target_table |-> row.REFERENCED_TABLE_NAME,
                             columns |-> <<>>])
        key == InboundKey(row)
        in1 == IF HasKey(acc.inbound, key) THEN acc.inbound
               ELSE Insert(acc.inbound, key,
                           [name |-> fk_name,
                            source_schema |-> row.TABLE_SCHEMA,
                            source_table |-> row.TABLE_NAME,
                            columns |-> <<>>])
    IN  [outbound |-> AppendColumn(out1, fk_name, ColumnPair(row)),
         inbound |-> AppendColumn(in1, key, ColumnPair(row))]

RECURSIVE FkFold(_, _)
FkFold(acc, rows) ==
    IF rows = <<>> THEN acc
    ELSE FkFold(FkFoldRow(acc, Head(rows)), Tail(rows))

EmptyFk == [outbound |-> <<>>, inbound |-> <<>>]

(***************************************************************************)
(* Rows a cursor can hand to the folds                                     *)
(***************************************************************************)
IndexNames == {"", "(unnamed)", "PRIMARY"}
ColumnNames == {"c1", "c2"}

IdxRowDomain ==
    [INDEX_NAME : IndexNames, IS_PRIMARY_OR_UNIQUE : {0, 1},
     SEQ_IN_INDEX : 1..MaxSeq, COLUMN_NAME : ColumnNames]

FkRowDomain ==
    [CONSTRAINT_NAME : {"fk_parent", "c.fk_parent"},
     TABLE_SCHEMA : {"s1", "s2"},
     TABLE_NAME : {"child"},
     COLUMN_NAME : ColumnNames,
     REFERENCED_TABLE_SCHEMA : {"a", "a.b"},
     REFERENCED_TABLE_NAME : {"b", "b.c", "c"},
     REFERENCED_COLUMN_NAME : {"id"}]

(***************************************************************************)
(* What the driver answers during one invocation.  `fail` names the call   *)
(* that raises ("none": no call raises).                                   *)
(***************************************************************************)
\* cur.description after execute: None (<<>>) for a statement without a
\* result set, else one tuple per column whose first component is the name.
Description == <<<<"x", "LONG">>, <<"y", "VAR_STRING">>>>

RunQueryDriver ==
    {d \in [fail : {"none", "cursor", "execute", "fetchall", "fold", "commit"},
            description : {<<>>, Description},
            rows : {<<>>, <<[x |-> 1, y |-> "a"]>>},
            rowcount : 0..1] :
        /\ d.fail \in {"fetchall", "fold"} => d.description # <<>>
        /\ d.fail = "fetchall" => d.rows = <<>>
        /\ d.fail = "commit" => d.description = <<>>
        /\ d.description = <<>> => d.rows = <<>>
        /\ d.description # <<>> => d.rowcount = Len(d.rows)
        /\ d.fail \in {"cursor", "execute"} => d.rows = <<>> /\ d.rowcount = 0}

ColumnRows ==
    <<[COLUMN_NAME |-> "name", DATA_TYPE |-> "varchar", IS_NULLABLE |-> "YES",
       CHARACTER_MAXIMUM_LENGTH |-> 255],
      [COLUMN_NAME |-> "code", DATA_TYPE |-> "char", IS_NULLABLE |-> "NO",
       CHARACTER_MAXIMUM_LENGTH |-> 3]>>

DescribeTableDriver ==
    {d \in [fail : {"none", "cursor", "execute", "fetchall", "fold"},
            rows : {<<>>, ColumnRows}] :
        d.fail \in {"cursor", "execute", "fetchall"} => d.rows = <<>>}

SomeIdxRows ==
    <<[INDEX_NAME |-> "PRIMARY", IS_PRIMARY_OR_UNIQUE |-> 1, SEQ_IN_INDEX |-> 1,
       COLUMN_NAME |-> "c1"],
      [INDEX_NAME |-> "PRIMARY", IS_PRIMARY_OR_UNIQUE |-> 1, SEQ_IN_INDEX |-> 2,
       COLUMN_NAME |-> "c2"]>>

SomeFkRows ==
    <<[CONSTRAINT_NAME |-> "fk_parent", TABLE_SCHEMA |-> "s1", TABLE_NAME |-> "child",
       COLUMN_NAME |-> "c1", REFERENCED_TABLE_SCHEMA |-> "a",
       REFERENCED_TABLE_NAME |-> "b", REFERENCED_COLUMN_NAME |-> "id"]>>

DescribeIndexesDriver ==
    {d \in [fail : {"none", "cursor", "execute", "fetchall", "fold",
                    "execute_fk", "fetchall_fk", "fold_fk"},
            idx_rows : {<<>>, SomeIdxRows},
            fk_rows : {<<>>, SomeFkRows}] :
        /\ d.fail \in {"cursor", "execute", "fetchall"} => d.idx_rows = <<>>
        /\ d.fail \in {"cursor", "execute", "fetchall", "fold", "execute_fk",
                       "fetchall_fk"} => d.fk_rows = <<>>}

Driver(o) ==
    CASE o = "run_query" -> RunQueryDriver
      [] o = "describe_table" -> DescribeTableDriver
      [] o = "describe_indexes_and_foreign_keys" -> DescribeIndexesDriver
      [] OTHER -> {}

(***************************************************************************)
(* The handlers' try blocks: the calls made on the connection and its      *)
(* cursor, in order, and the value returned or the error raised.  Leaving  *)
(* `with conn.cursor(...) as cur` closes the cursor ("cur.close").         *)
(***************************************************************************)
NoResult == [none |-> TRUE]

Raised(calls, at) == [calls |-> calls, exc |-> at, result |-> NoResult]
Returned(calls, value) == [calls |-> calls, exc |-> "none", result |-> value]

\* [col[0] for col in cur.description]
Columns(description) == [k \in 1..Len(description) |-> description[k][1]]

\* A slip the handler must not make: no commit, as if the connection had autocommit.
RunQueryTryNoCommit(d) ==
    IF d.fail = "cursor" THEN Raised(<<"cursor">>, "cursor")
    ELSE IF d.fail = "execute"
    THEN Raised(<<"cursor", "execute", "cur.close">>, "execute")
    ELSE IF d.description # <<>>
    THEN IF d.fail = "fetchall"
         THEN Raised(<<"cursor", "execute", "fetchall", "cur.close">>, "fetchall")
         ELSE IF d.fail = "fold"
         THEN Raised(<<"cursor", "execute", "fetchall", "cur.close">>, "fold")
         ELSE Returned(<<"cursor", "execute", "fetchall", "cur.close">>,
                       [columns |-> Columns(d.description), rows |-> d.rows])
    ELSE Returned(<<"cursor", "execute", "cur.close">>,
                  [rows_affected |-> d.rowcount])

\* A slip the handler must not make: a failed statement is executed again.
RunQueryTryRetry(d) ==
    IF d.fail = "cursor" THEN Raised(<<"cursor">>, "cursor")
    ELSE IF d.fail = "execute"
    THEN Raised(<<"cursor", "execute", "execute", "cur.close">>, "execute")
    ELSE IF d.description # <<>>
    THEN IF d.fail = "fetchall"
         THEN Raised(<<"cursor", "execute", "fetchall", "cur.close">>, "fetchall")
         ELSE IF d.fail = "fold"
         THEN Raised(<<"cursor", "execute", "fetchall", "cur.close">>, "fold")
         ELSE Returned(<<"cursor", "execute", "fetchall", "cur.close">>,
                       [columns |-> Columns(d.description), rows |-> d.rows])
    ELSE IF d.fail = "commit"
    THEN Raised(<<"cursor", "execute", "commit", "cur.close">>, "commit")
    ELSE Returned(<<"cursor", "execute", "commit", "cur.close">>,
                  [rows_affected |-> d.rowcount])

\* run_query, the body of `try`
RunQueryTry(d) ==
    IF d.fail = "cursor" THEN Raised(<<"cursor">>, "cursor")
    ELSE IF d.fail = "execute"
    THEN Raised(<<"cursor", "execute", "cur.close">>, "execute")
    ELSE IF d.description # <<>>
    THEN IF d.fail = "fetchall"
         THEN Raised(<<"cursor", "execute", "fetchall", "cur.close">>, "fetchall")
         ELSE IF d.fail = "fold"
         THEN Raised(<<"cursor", "execute", "fetchall", "cur.close">>, "fold")
         ELSE Returned(<<"cursor", "execute", "fetchall", "cur.close">>,
                       [columns |-> Columns(d.description), rows |-> d.rows])
    ELSE IF d.fail = "commit"
    THEN Raised(<<"cursor", "execute", "commit", "cur.close">>, "commit")
    ELSE Returned(<<"cursor", "execute", "commit", "cur.close">>,
                  [rows_affected |-> d.rowcount])

\* describe_table, the body of `try`; the returned list is held in `list`
DescribeTableTry(d) ==
    IF d.fail = "cursor" THEN Raised(<<"cursor">>, "cursor")
    ELSE IF d.fail = "execute"
    THEN Raised(<<"cursor", "execute", "cur.close">>, "execute")
    ELSE IF d.fail = "fetchall"
    THEN Raised(<<"cursor", "execute", "fetchall", "cur.close">>, "fetchall")
    ELSE IF d.fail = "fold"
    THEN Raised(<<"cursor", "execute", "fetchall", "cur.close">>, "fold")
    ELSE Returned(<<"cursor", "execute", "fetchall", "cur.close">>,
                  [list |-> [k \in 1..Len(d.rows) |->
                      [column |-> d.rows[k].COLUMN_NAME,
                       type |-> d.rows[k].DATA_TYPE,
                       nullable |-> d.rows[k].IS_NULLABLE = "YES",
                       length |-> d.rows[k].CHARACTER_MAXIMUM_LENGTH]]])

\* describe_indexes_and_foreign_keys, the body of `try`
DescribeIndexesTry(d) ==
    IF d.fail = "cursor" THEN Raised(<<"cursor">>, "cursor")
    ELSE IF d.fail = "execute"
    THEN Raised(<<"cursor", "execute", "cur.close">>, "execute")
    ELSE IF d.fail = "fetchall"
    THEN Raised(<<"cursor", "execute", "fetchall", "cur.close">>, "fetchall")
    ELSE IF d.fail = "fold"
    THEN Raised(<<"cursor", "execute", "fetchall", "cur.close">>, "fold")
    ELSE IF d.fail = "execute_fk"
    THEN Raised(<<"cursor", "execute", "fetchall", "execute", "cur.close">>,
                "execute_fk")
    ELSE IF d.fail = "fetchall_fk"
    THEN Raised(<<"cursor", "execute", "fetchall", "execute", "fetchall",
                  "cur.close">>, "fetchall_fk")
    ELSE IF d.fail = "fold_fk"
    THEN Raised(<<"cursor", "execute", "fetchall", "execute", "fetchall",
                  "cur.close">>, "fold_fk")
    ELSE LET fk == FkFold(EmptyFk, d.fk_rows)
         IN  Returned(<<"cursor", "execute", "fetchall", "execute", "fetchall",
                        "cur.close">>,
                      [indexes |-> Values(IndexFold(<<>>, d.idx_rows)),
                       foreign_keys_outbound |-> Values(fk.outbound),
                       foreign_keys_inbound |-> Values(fk.inbound)])

TryBlock(o, d) ==
    CASE o = "run_query" -> RunQueryTry(d)
      [] o = "describe_table" -> DescribeTableTry(d)
      [] o = "describe_indexes_and_foreign_keys" -> DescribeIndexesTry(d)

\* A slip the handlers must not make: conn.close() after the try block
\* instead of in a finally clause, so that an error skips it.
TryThenClose(o, d) ==
    LET t == TryBlock(o, d)
    IN  IF t.exc = "none" THEN [t EXCEPT !.calls = Append(@, "close")] ELSE t

\* try: ... finally: conn.close()
TryFinally(o, d) ==
    LET t == TryBlock(o, d)
    IN  [t EXCEPT !.calls = Append(@, "close")]

(***************************************************************************)
(* The pool and the two steps of an invocation                             *)
(***************************************************************************)
NoReply ==
    [inv |-> 0, op |-> "none", conn |-> 0, calls |-> <<>>, exc |-> "none",
     result |-> NoResult, driver |-> [fail |-> "none"]]

\* A slip the pool must not make: the connection is handed out and stays queued.
GetConnShared(i, o) ==
    /\ pc[i] = "idle"
    /\ IF pool # <<>>
       THEN /\ conn' = [conn EXCEPT ![i] = Head(pool)]
            /\ pc' = [pc EXCEPT ![i] = "try"]
            /\ op' = [op EXCEPT ![i] = o]
            /\ UNCHANGED <<pool, reply>>
       ELSE /\ reply' = [NoReply EXCEPT !.inv = i, !.op = o, !.exc = "PoolError"]
            /\ UNCHANGED <<pool, conn, pc, op>>
    /\ UNCHANGED foldVars

\* A slip the pool must not make: an empty pool makes the caller wait.
GetConnBlocking(i, o) ==
    /\ pc[i] = "idle"
    /\ pool # <<>>
    /\ conn' = [conn EXCEPT ![i] = Head(pool)]
    /\ pool' = Tail(pool)
    /\ pc' = [pc EXCEPT ![i] = "try"]
    /\ op' = [op EXCEPT ![i] = o]
    /\ UNCHANGED reply
    /\ UNCHANGED foldVars

\* conn = get_conn(), the first statement of handler o in invocation i.
\* POOL.get_connection() takes the connection at the head of the queue, and
\* raises PoolError at once when the queue is empty; the statement is outside
\* the handler's try, so the error goes straight to the host.
GetConn(i, o) ==
    /\ pc[i] = "idle"
    /\ IF pool # <<>>
       THEN /\ conn' = [conn EXCEPT ![i] = Head(pool)]
            /\ pool' = Tail(pool)
            /\ pc' = [pc EXCEPT ![i] = "try"]
            /\ op' = [op EXCEPT ![i] = o]
            /\ UNCHANGED reply
       ELSE /\ reply' = [NoReply EXCEPT !.inv = i, !.op = o, !.exc = "PoolError"]
            /\ UNCHANGED <<pool, conn, pc, op>>
    /\ UNCHANGED foldVars

\* The rest of the handler: the try block, the finally clause, and the
\* return or the raise.  Every conn.close() in the calls puts the connection
\* back at the tail of the pool's queue.
Run(i, d) ==
    /\ pc[i] = "try"
    /\ LET t == TryFinally(op[i], d)
       IN  /\ reply' = [inv |-> i, op |-> op[i], conn |-> conn[i],
                        calls |-> t.calls, exc |-> t.exc, result |-> t.result,
                        driver |-> d]
           /\ pool' = pool \o [k \in 1..Count(t.calls, "close") |-> conn[i]]
    /\ conn' = [conn EXCEPT ![i] = 0]
    /\ pc' = [pc EXCEPT ![i] = "idle"]
    /\ op' = [op EXCEPT ![i] = "none"]
    /\ UNCHANGED foldVars

NoFold ==
    /\ idx_rows = <<>>
    /\ fk_rows = <<>>
    /\ indexes = <<>>
    /\ outbound = <<>>
    /\ inbound = <<>>
    /\ phase = "none"
    /\ catalog = {}
    /\ args = <<"", "">>

NoTools ==
    /\ pool = [c \in Conns |-> c]
    /\ pc = <<>>
    /\ op = <<>>
    /\ conn = <<>>
    /\ reply = NoReply

\* POOL = build_connection_pool(): pool_size connections, all queued.
InitTools(I) ==
    /\ pool = [c \in Conns |-> c]
    /\ pc = [i \in I |-> "idle"]
    /\ op = [i \in I |-> "none"]
    /\ conn = [i \in I |-> 0]
    /\ reply = NoReply

(***************************************************************************)
(* Spec: the three tools, every answer of the driver, NumInv invocations   *)
(* at a time.                                                              *)
(***************************************************************************)
Init == InitTools(Invs) /\ NoFold

Next ==
    \/ \E i \in Invs, o \in Ops : GetConn(i, o)
    \/ \E i \in Invs : \E d \in Driver(op[i]) : Run(i, d)

Spec == Init /\ [][Next]_vars

(***************************************************************************)
(* PoolSpec: more invocations than the pool has connections, all of them   *)
(* run_query, with one successful and one failing answer of the driver.    *)
(***************************************************************************)
PoolDriver ==
    {d \in RunQueryDriver :
        d.description = <<>> /\ d.rowcount = 0 /\ d.fail \in {"none", "execute"}}

PoolInit == InitTools(PoolInvs) /\ NoFold

PoolNext ==
    \/ \E i \in PoolInvs : GetConn(i, "run_query")
    \/ \E i \in PoolInvs : \E d \in PoolDriver : Run(i, d)

PoolSpec == PoolInit /\ [][PoolNext]_vars

(***************************************************************************)
(* FoldSpec: the two folds of describe_indexes_and_foreign_keys applied to *)
(* row lists of every content and order a cursor can return.               *)
(***************************************************************************)
FoldInit ==
    /\ NoTools
    /\ phase = "rows"
    /\ indexes = <<>>
    /\ outbound = <<>>
    /\ inbound = <<>>
    /\ catalog = {}
    /\ args = <<"", "">>
    /\ \/ idx_rows \in SeqsUpTo(IdxRowDomain, MaxRows) /\ fk_rows = <<>>
       \/ idx_rows = <<>> /\ fk_rows \in SeqsUpTo(FkRowDomain, MaxRows)

\* The two loops, over the rows held in idx_rows and fk_rows.
Fold ==
    /\ phase = "rows"
    /\ phase' = "folded"
    /\ indexes' = IndexFold(<<>>, idx_rows)
    /\ LET fk == FkFold(EmptyFk, fk_rows)
       IN  outbound' = fk.outbound /\ inbound' = fk.inbound
    /\ UNCHANGED <<idx_rows, fk_rows, catalog, args>>
    /\ UNCHANGED toolVars

FoldSpec == FoldInit /\ [][Fold]_vars

(***************************************************************************)
(* CatalogSpec: describe_indexes_and_foreign_keys against a database.  The *)
(* database holds a few tables, a primary key on each, and a set of        *)
(* foreign keys whose names are unique within a schema; the server keeps   *)
(* an index named after each foreign key on its columns.                   *)
(***************************************************************************)
Tables == {<<"a", "b">>, <<"a", "b.c">>, <<"s2", "b">>}
FkNames == {"fk_parent", "c.fk_parent"}
FkColumns == <<"c1", "c2">>
RefColumns == <<"id", "id2">>

\* the collation order of the constraint and index names
NameOrder == <<"c.fk_parent", "fk_parent", "PRIMARY">>
Rank(name) == CHOOSE k \in 1..Len(NameOrder) : NameOrder[k] = name

FkDefs == [name : FkNames, src : Tables, ref : Tables, ncols : 1..Len(FkColumns)]

ValidFks(F) ==
    \A f \in F, g \in F : f # g => ~(f.name = g.name /\ f.src[1] = g.src[1])

\* INFORMATION_SCHEMA.KEY_COLUMN_USAGE; "" stands for NULL
KeyColumnUsage(F) ==
    UNION {{[CONSTRAINT_NAME |-> f.name, TABLE_SCHEMA |-> f.src[1],
             TABLE_NAME |-> f.src[2], COLUMN_NAME |-> FkColumns[k],
             ORDINAL_POSITION |-> k, REFERENCED_TABLE_SCHEMA |-> f.ref[1],
             REFERENCED_TABLE_NAME |-> f.ref[2],
             REFERENCED_COLUMN_NAME |-> RefColumns[k]] : k \in 1..f.ncols} :
           f \in F}
    \cup
    {[CONSTRAINT_NAME |-> "PRIMARY", TABLE_SCHEMA |-> t[1], TABLE_NAME |-> t[2],
      COLUMN_NAME |-> "id", ORDINAL_POSITION |-> 1,
      REFERENCED_TABLE_SCHEMA |-> "", REFERENCED_TABLE_NAME |-> "",
      REFERENCED_COLUMN_NAME |-> ""] : t \in Tables}

\* INFORMATION_SCHEMA.STATISTICS
Statistics(F) ==
    UNION {{[TABLE_SCHEMA |-> f.src[1], TABLE_NAME |-> f.src[2],
             INDEX_NAME |-> f.name, NON_UNIQUE |-> 1, SEQ_IN_INDEX |-> k,
             COLUMN_NAME |-> FkColumns[k]] : k \in 1..f.ncols} : f \in F}
    \cup
    {[TABLE_SCHEMA |-> t[1], TABLE_NAME |-> t[2], INDEX_NAME |-> "PRIMARY",
      NON_UNIQUE |-> 0, SEQ_IN_INDEX |-> 1, COLUMN_NAME |-> "id"] : t \in Tables}

Database(F) == [KEY_COLUMN_USAGE |-> KeyColumnUsage(F), STATISTICS |-> Statistics(F)]

\* ORDER BY <name>, <position> over rows tagged with their two sort keys
RECURSIVE OrderBy(_)
OrderBy(S) ==
    IF S = {} THEN <<>>
    ELSE LET m == CHOOSE x \in S : \A y \in S :
                      \/ x.k1 < y.k1
                      \/ x.k1 = y.k1 /\ x.k2 <= y.k2
         IN  <<m.row>> \o OrderBy(S \ {m})

\* index_query with parameters (schema, table_name)
IndexQuery(db, schema, table_name) ==
    OrderBy({[k1 |-> Rank(r.INDEX_NAME), k2 |-> r.SEQ_IN_INDEX,
              row |-> [INDEX_NAME |-> r.INDEX_NAME,
                       IS_PRIMARY_OR_UNIQUE |-> IF r.NON_UNIQUE = 0 THEN 1 ELSE 0,
                       SEQ_IN_INDEX |-> r.SEQ_IN_INDEX,
                       COLUMN_NAME |-> r.COLUMN_NAME]] :
             r \in {x \in db.STATISTICS :
                        x.TABLE_SCHEMA = schema /\ x.TABLE_NAME = table_name}})

\* fk_query with parameters (schema, table_name)
FkQuery(db, schema, table_name) ==
    OrderBy({[k1 |-> Rank(r.CONSTRAINT_NAME), k2 |-> r.ORDINAL_POSITION,
              row |-> [CONSTRAINT_NAME |-> r.CONSTRAINT_NAME,
                       TABLE_SCHEMA |-> r.TABLE_SCHEMA,
                       TABLE_NAME |-> r.TABLE_NAME,
                       COLUMN_NAME |-> r.COLUMN_NAME,
                       REFERENCED_TABLE_SCHEMA |-> r.REFERENCED_TABLE_SCHEMA,
                       REFERENCED_TABLE_NAME |-> r.REFERENCED_TABLE_NAME,
                       REFERENCED_COLUMN_NAME |-> r.REFERENCED_COLUMN_NAME]] :
             r \in {x \in db.KEY_COLUMN_USAGE :
                        /\ x.TABLE_SCHEMA = schema
                        /\ x.TABLE_NAME = table_name
                        /\ x.REFERENCED_TABLE_NAME # ""}})

CatalogInit ==
    /\ InitTools({1})
    /\ phase = "db"
    /\ idx_rows = <<>>
    /\ fk_rows = <<>>
    /\ indexes = <<>>
    /\ outbound = <<>>
    /\ inbound = <<>>
    /\ \E F \in SetsUpTo(FkDefs, MaxFks) :
          /\ ValidFks(F)
          /\ catalog = Database(F)
    /\ args \in Tables

\* describe_indexes_and_foreign_keys(ctx, args[1], args[2]), start to end,
\* the cursor answering the two queries from the database.
Describe ==
    /\ phase = "db"
    /\ phase' = "described"
    /\ LET d == [fail |-> "none",
                 idx_rows |-> IndexQuery(catalog, args[1], args[2]),
                 fk_rows |-> FkQuery(catalog, args[1], args[2])]
           o == "describe_indexes_and_foreign_keys"
           t == TryFinally(o, d)
           fk == FkFold(EmptyFk, d.fk_rows)
       IN  /\ idx_rows' = d.idx_rows
           /\ fk_rows' = d.fk_rows
           /\ indexes' = IndexFold(<<>>, d.idx_rows)
           /\ outbound' = fk.outbound
           /\ inbound' = fk.inbound
           /\ reply' = [inv |-> 1, op |-> o, conn |-> Head(pool),
                        calls |-> t.calls, exc |-> t.exc, result |-> t.result,
                        driver |-> d]
           /\ pool' = Tail(pool) \o [k \in 1..Count(t.calls, "close") |-> Head(pool)]
    /\ UNCHANGED <<pc, op, conn, catalog, args>>

CatalogSpec == CatalogInit /\ [][Describe]_vars

(***************************************************************************)
(* Properties.  Helpers first.                                             *)
(***************************************************************************)
RECURSIVE TotalColumns(_)
TotalColumns(dict) ==
    IF dict = <<>> THEN 0
    ELSE Len(Head(dict).value.columns) + TotalColumns(Tail(dict))

\* the {column, references} pairs of the rows with the given positions
PairsAt(rows, K) ==
    LET sel == SelectSeq([k \in 1..Len(rows) |-> [at |-> k, row |-> rows[k]]],
                         LAMBDA e : e.at \in K)
    IN  [k \in 1..Len(sel) |-> ColumnPair(sel[k].row)]

IdxColumnsAt(rows, K) ==
    LET sel == SelectSeq([k \in 1..Len(rows) |-> [at |-> k, row |-> rows[k]]],
                         LAMBDA e : e.at \in K)
    IN  [k \in 1..Len(sel) |->
            [name |-> sel[k].row.COLUMN_NAME, seq_in_index |-> sel[k].row.SEQ_IN_INDEX]]

Ascending(columns) ==
    \A k \in 1..(Len(columns) - 1) :
        columns[k].seq_in_index <= columns[k + 1].seq_in_index

Holders == {i \in DOMAIN pc : pc[i] = "try"}
LastCall(r) == r.calls[Len(r.calls)]
Before(calls, a, b) ==
    \A k \in 1..Len(calls), l \in 1..Len(calls) :
        calls[k] = a /\ calls[l] = b => k < l

(***************************************************************************)
(* C1: whatever call of a handler fails after get_conn() returned, and     *)
(* also when none fails, the handler closes its connection exactly once,   *)
(* as its last call, and when no invocation is running every connection of *)
(* the pool is back in the queue.                                          *)
(***************************************************************************)
C1_ClosedExactlyOnce ==
    /\ reply.conn # 0 =>
          /\ Count(reply.calls, "close") = 1
          /\ LastCall(reply) = "close"
    /\ \A i \in DOMAIN pc : pc[i] = "idle" => conn[i] = 0
    /\ Len(pool) + Cardinality(Holders) = PoolSize
    /\ Holders = {} => {pool[k] : k \in 1..Len(pool)} = Conns

C1_Witness ==
    /\ reply.op = "describe_indexes_and_foreign_keys"
    /\ reply.exc = "fold_fk"
    /\ reply.conn # 0
    /\ Holders = {}
    /\ Len(pool) = PoolSize

(***************************************************************************)
(* C2: every key-usage row adds one {column, references} entry to one      *)
(* outbound descriptor and one to one inbound descriptor: the entries of   *)
(* the outbound descriptors number as many as the rows, and so do those of *)
(* the inbound descriptors.                                                *)
(***************************************************************************)
C2_EveryRowOnce ==
    phase = "folded" =>
        /\ TotalColumns(outbound) = Len(fk_rows)
        /\ TotalColumns(inbound) = Len(fk_rows)
        /\ \A k \in 1..Len(fk_rows) :
              /\ Cardinality({j \in 1..Len(outbound) :
                     outbound[j].key = fk_rows[k].CONSTRAINT_NAME}) = 1
              /\ Cardinality({j \in 1..Len(inbound) :
                     inbound[j].key = InboundKey(fk_rows[k])}) = 1
        /\ \A j \in 1..Len(outbound) :
              outbound[j].value.columns =
                  PairsAt(fk_rows, {k \in 1..Len(fk_rows) :
                              fk_rows[k].CONSTRAINT_NAME = outbound[j].key})
        /\ \A j \in 1..Len(inbound) :
              inbound[j].value.columns =
                  PairsAt(fk_rows, {k \in 1..Len(fk_rows) :
                              InboundKey(fk_rows[k]) = inbound[j].key})

C2_Witness ==
    /\ phase = "folded"
    /\ Len(fk_rows) = 2
    /\ Len(outbound) = 1
    /\ Len(inbound) = 2
    /\ TotalColumns(inbound) = 2

C4_InboundReferencesDescribed ==
    phase = "described" =>
        /\ \A j \in 1..Len(inbound) :
              \E r \in catalog.KEY_COLUMN_USAGE :
                  /\ r.CONSTRAINT_NAME = inbound[j].value.name
                  /\ r.TABLE_SCHEMA = inbound[j].value.source_schema
                  /\ r.TABLE_NAME = inbound[j].value.source_table
                  /\ r.REFERENCED_TABLE_SCHEMA = args[1]
                  /\ r.REFERENCED_TABLE_NAME = args[2]
        /\ \A r \in catalog.KEY_COLUMN_USAGE :
              (r.REFERENCED_TABLE_SCHEMA = args[1] /\ r.REFERENCED_TABLE_NAME = args[2])
              => \E j \in 1..Len(inbound) :
                    /\ inbound[j].value.name = r.CONSTRAINT_NAME
                    /\ inbound[j].value.source_schema = r.TABLE_SCHEMA
                    /\ inbound[j].value.source_table = r.TABLE_NAME

(***************************************************************************)
(* C5: a run_query that returns gives back one of two shapes.  When the    *)
(* cursor has a description: {columns, rows}, the columns being the names  *)
(* of the description in its order and the rows the fetched ones, and no   *)
(* commit was issued.  When it has none: {rows_affected} with the cursor's *)
(* row count, after exactly one commit issued after the execute and before *)
(* the connection is closed.                                               *)
(***************************************************************************)
C5_OneShapeCommitFirst ==
    (reply.op = "run_query" /\ reply.exc = "none") =>
        IF reply.driver.description # <<>>
        THEN /\ DOMAIN reply.result = {"columns", "rows"}
             /\ Len(reply.result.columns) = Len(reply.driver.description)
             /\ \A k \in 1..Len(reply.driver.description) :
                   reply.result.columns[k] = reply.driver.description[k][1]
             /\ reply.result.rows = reply.driver.rows
             /\ Count(reply.calls, "commit") = 0
        ELSE /\ DOMAIN reply.result = {"rows_affected"}
             /\ reply.result.rows_affected = reply.driver.rowcount
             /\ Count(reply.calls, "commit") = 1
             /\ Before(reply.calls, "execute", "commit")
             /\ Before(reply.calls, "commit", "close")

C5_Witness ==
    /\ reply.op = "run_query"
    /\ reply.exc = "none"
    /\ reply.driver.description = <<>>
    /\ reply.result = [rows_affected |-> 1]
    /\ Count(reply.calls, "commit") = 1

(***************************************************************************)
(* C6: with every connection of the pool checked out, an idle invocation   *)
(* can still take its get_conn() step, and that step can only fail: the    *)
(* host gets PoolError, the invocation holds no connection and made no     *)
(* call, and the pool and the connections held by the others are as before.*)
(***************************************************************************)
AcquisitionFailed(i) ==
    /\ reply'.inv = i
    /\ reply'.exc = "PoolError"
    /\ reply'.conn = 0
    /\ reply'.calls = <<>>
    /\ pc' = pc
    /\ conn' = conn
    /\ pool' = pool

C6_ExhaustedPoolFails ==
    Cardinality(Holders) = PoolSize =>
        \A i \in DOMAIN pc :
            pc[i] = "idle" =>
                /\ ENABLED GetConn(i, "run_query")
                /\ ~ ENABLED (GetConn(i, "run_query") /\ ~ AcquisitionFailed(i))

C6_Witness ==
    /\ Cardinality(Holders) = PoolSize
    /\ pool = <<>>
    /\ reply.exc = "PoolError"
    /\ reply.inv \in DOMAIN pc
    /\ pc[reply.inv] = "idle"
    /\ conn[reply.inv] = 0

(***************************************************************************)
(* C7 as stated: whatever the order of the index rows, the descriptors are *)
(* those of grouping by name and sorting by sequence: one descriptor per   *)
(* name, the flag of the rows of that name (when they agree), and the      *)
(* columns of the rows of that name in ascending sequence-in-index order.  *)
(***************************************************************************)
RowsNamed(name) == {k \in 1..Len(idx_rows) : IdxName(idx_rows[k]) = name}

SameColumns(columns, K) ==
    /\ Len(columns) = Cardinality(K)
    /\ \A c \in {columns[k] : k \in 1..Len(columns)} :
          Cardinality({k \in 1..Len(columns) : columns[k] = c}) =
          Cardinality({k \in K : idx_rows[k].COLUMN_NAME = c.name
                                  /\ idx_rows[k].SEQ_IN_INDEX = c.seq_in_index})

C7_SortedWhateverTheOrder ==
    phase = "folded" =>
        /\ {indexes[j].key : j \in 1..Len(indexes)} =
               {IdxName(idx_rows[k]) : k \in 1..Len(idx_rows)}
        /\ \A j \in 1..Len(indexes), l \in 1..Len(indexes) :
               indexes[j].key = indexes[l].key => j = l
        /\ \A j \in 1..Len(indexes) :
              LET v == indexes[j].value
                  K == RowsNamed(indexes[j].key)
              IN  /\ v.name = indexes[j].key
                  /\ (\A k \in K, l \in K : idx_rows[k].IS_PRIMARY_OR_UNIQUE =
                                            idx_rows[l].IS_PRIMARY_OR_UNIQUE)
                     => \A k \in K :
                           v.is_primary_or_unique = (idx_rows[k].IS_PRIMARY_OR_UNIQUE # 0)
                  /\ SameColumns(v.columns, K)
                  /\ Ascending(v.columns)

(***************************************************************************)
(* C7 as the fold does it: one descriptor per name, whatever the order of  *)
(* the rows; its flag is that of the first row of the name (so that of     *)
(* all of them when they agree); its columns are those of the rows of the  *)
(* name, in the order the rows came, hence in ascending sequence-in-index  *)
(* order exactly when the rows of that name came in that order.            *)
(***************************************************************************)
FirstOf(K) == CHOOSE k \in K : \A l \in K : k <= l

C7_GroupedInRowOrder ==
    phase = "folded" =>
        /\ {indexes[j].key : j \in 1..Len(indexes)} =
               {IdxName(idx_rows[k]) : k \in 1..Len(idx_rows)}
        /\ \A j \in 1..Len(indexes), l \in 1..Len(indexes) :
               indexes[j].key = indexes[l].key => j = l
        /\ \A j \in 1..Len(indexes) :
              LET v == indexes[j].value
                  K == RowsNamed(indexes[j].key)
              IN  /\ v.name = indexes[j].key
                  /\ v.is_primary_or_unique =
                         (idx_rows[FirstOf(K)].IS_PRIMARY_OR_UNIQUE # 0)
                  /\ SameColumns(v.columns, K)
                  /\ v.columns = IdxColumnsAt(idx_rows, K)
                  /\ Ascending(v.columns) <=>
                         \A k \in K, l \in K :
                             k < l => idx_rows[k].SEQ_IN_INDEX <= idx_rows[l].SEQ_IN_INDEX

C7_Witness ==
    /\ phase = "folded"
    /\ Len(idx_rows) = 2
    /\ idx_rows[1].INDEX_NAME = "PRIMARY"
    /\ idx_rows[2].INDEX_NAME = "PRIMARY"
    /\ idx_rows[1].SEQ_IN_INDEX > idx_rows[2].SEQ_IN_INDEX
    /\ Len(indexes) = 1
    /\ Len(indexes[1].value.columns) = 2

(***************************************************************************)
(* C8: two key-usage rows are in the same inbound descriptor exactly when  *)
(* they have the same referenced schema, referenced table and constraint   *)
(* name, also for names that contain a '.'.                                *)
(***************************************************************************)
Lands(k) == CHOOSE j \in 1..Len(inbound) : inbound[j].key = InboundKey(fk_rows[k])

Triple(row) ==
    <<row.REFERENCED_TABLE_SCHEMA, row.REFERENCED_TABLE_NAME, row.CONSTRAINT_NAME>>

C8_SameDescriptorIffSameTriple ==
    phase = "described" =>
        \A k \in 1..Len(fk_rows), l \in 1..Len(fk_rows) :
            (Lands(k) = Lands(l)) <=> (Triple(fk_rows[k]) = Triple(fk_rows[l]))

(***************************************************************************)
(* C9: at every moment the connections held by running invocations are    *)
(* pairwise different, none of them is in the pool's queue, there are at   *)
(* most PoolSize of them, an invocation holds one exactly while it runs;   *)
(* and the step that ends an invocation made its calls on, and gives back  *)
(* to the pool, the connection that invocation held, leaving the others'.  *)
(***************************************************************************)
Exclusive ==
    /\ \A i \in DOMAIN conn, j \in DOMAIN conn :
          (i # j /\ conn[i] # 0) => conn[i] # conn[j]
    /\ \A i \in DOMAIN conn, k \in 1..Len(pool) : conn[i] # 0 => pool[k] # conn[i]
    /\ Cardinality({i \in DOMAIN conn : conn[i] # 0}) <= PoolSize
    /\ \A i \in DOMAIN pc : pc[i] = "try" <=> conn[i] # 0

UsesOwnConnection ==
    \A i \in DOMAIN pc :
        (pc[i] = "try" /\ pc'[i] = "idle") =>
            /\ reply'.inv = i
            /\ reply'.conn = conn[i]
            /\ pool' = Append(pool, conn[i])
            /\ \A j \in DOMAIN conn : j # i => conn'[j] = conn[j]

C9_ExclusiveConnections == [] Exclusive /\ [][UsesOwnConnection]_vars

C9_Witness ==
    /\ Cardinality(Holders) = PoolSize
    /\ Cardinality({conn[i] : i \in Holders}) = PoolSize
    /\ reply.conn # 0

(***************************************************************************)
(* C10: when the execute of run_query raises, the statement was executed   *)
(* once, nothing was committed, no result is returned, the error the host  *)
(* gets is the one execute raised, and the connection was closed, as the   *)
(* last call, before the host got it.                                      *)
(***************************************************************************)
C10_ExecuteErrorPropagates ==
    (reply.op = "run_query" /\ reply.conn # 0 /\ reply.driver.fail = "execute") =>
        /\ Count(reply.calls, "execute") = 1
        /\ Count(reply.calls, "commit") = 0
        /\ Count(reply.calls, "fetchall") = 0
        /\ reply.result = NoResult
        /\ reply.exc = "execute"
        /\ Count(reply.calls, "close") = 1
        /\ LastCall(reply) = "close"

C10_Witness ==
    /\ reply.op = "run_query"
    /\ reply.conn # 0
    /\ reply.exc = "execute"
    /\ reply.driver.fail = "execute"
    /\ Holders = {}
====
